---- MODULE Spec2Model ----
(***************************************************************************)
(* Model of the Ufanet doorphone integration: the UfanetAPI session client *)
(* (authenticate, get_doorphones, open_doorphone), the UfanetLock entity   *)
(* (async_unlock) and the credential form (UfanetConfigFlow).              *)
(*                                                                         *)
(* The client is used from a single asyncio event loop: a coroutine runs   *)
(* without interruption up to the network request it awaits, so one action *)
(* of the model is the code between two requests: the handling of a        *)
(* response together with the issue of the next request.                   *)
(***************************************************************************)
EXTENDS Integers, Sequences, FiniteSets, TLC

\* Largest number of GETs the portal answers with 401 inside one call: the
\* recursion of the code has no bound of its own.
MaxGets == 3

\* The two callers of one shared client: the coordinator's scheduled refresh
\* and a user's unlock request.
Tasks == {"refresh", "user"}

None == "None"
NoBody == "NoBody"
Jar == "cookie_jar"
\* self.session = None; a ClientSession is the pair of its maker and its use.
NoSession == <<>>

OK == 200
Unauthorized == 401
Pending == 0
\* The request got no response: connection refused or timed out.
Failed == -1
\* The exception aiohttp raises from session.post / session.get then.
TransportError == "aiohttp.ClientError"
Statuses == {200, 401, 500}

LOGIN_ENDPOINT == "/login/"
GET_DOORPHONES_ENDPOINT == "/api/v0/skud/shared"
OPEN_DOORPHONE_ENDPOINT(id) == <<"/api/v0/skud/shared/", id, "/open/">>

DoorphoneIds == {42, 7}
\* Doorphone ids whose identities are compared with those of the locks.
SampleIds == {2, 4, 7, 24, 42, 47, 70, 420, 427}
\* JSON arrays the list endpoint answers with.
ListBodies == { <<>>,
                <<[id |-> 42, string_view |-> "Front Gate"]>>,
                <<[id |-> 42, string_view |-> "Front Gate"], [id |-> 7]>> }
\* JSON objects the open endpoint answers with, as sets of key/value pairs.
OpenBodies == { {<<"result", TRUE>>}, {<<"result", FALSE>>}, {} }

\* The bodies the portal may send with status s to a GET of call o.
Bodies(o, s) == IF s # 200 THEN {NoBody}
                ELSE IF o = "get_doorphones" THEN ListBodies ELSE OpenBodies

\* The calls each task makes on the client.
Ops(t) == IF t = "refresh" THEN {"authenticate", "get_doorphones"}
                           ELSE {"async_unlock"}

\* Values the credential form is submitted with ("" is an empty field).
FormValues == {"", "u1"}
\* user_input: absent on the first display of the form, else the two fields.
UserInputs == {<<None, None>>} \cup (FormValues \X FormValues)

VARIABLES
    cookie,     \* UfanetAPI.cookie: None or the cookie jar of a login
    session,    \* UfanetAPI.session: NoSession or the last ClientSession made
    pc,         \* per task: "idle", "login" (awaiting POST), "get" (awaiting GET)
    op,         \* per task: the call it runs or ran last
    arg,        \* per task: the arguments of its call (the doorphone id)
    frame,      \* per task: where its pending authenticate() was called from
    hist,       \* per task: the requests of its current call, in order
    result,     \* per task: how the client call ended
    outcome,    \* per task: what UfanetLock.async_unlock did with the result
    errors,     \* config flow: errors["base"] of the form shown
    entries,    \* config flow: the config entries created
    flowPosts,  \* config flow: login POSTs sent by the form's client
    credentials,\* UfanetAPI.username and UfanetAPI.password
    locks       \* the UfanetLock entities async_setup_entry added last

vars == <<cookie, session, pc, op, arg, frame, hist, result, outcome,
          errors, entries, flowPosts, credentials, locks>>

clientVars == <<cookie, session, pc, op, arg, frame, hist, result, outcome,
                credentials>>
flowVars == <<errors, entries, flowPosts>>

----
\* Values

Request(req, url) == [req |-> req, url |-> url, status |-> Pending, body |-> NoBody]

\* The last request of h answered with status s and body b.
Answered(h, s, b) == [h EXCEPT ![Len(h)] = [@ EXCEPT !.status = s, !.body = b]]

\* How a call ended: msg is the message of the exception raised and codes
\* the status codes among the exception's arguments.
Returned(v) == [kind |-> "return", value |-> v, msg |-> None, codes |-> {}]
\* raise Exception(msg): the message is the exception's only argument.
Raised(msg) == [kind |-> "raise", value |-> None, msg |-> msg, codes |-> {}]
NoResult == [kind |-> "none", value |-> None, msg |-> None, codes |-> {}]

NumReq(h, r) == Cardinality({i \in DOMAIN h : h[i].req = r})

\* dict.get(key, default) on a JSON object.
DictGetPresent(obj, key, default) == \E kv \in obj : kv[1] = key
DictGet(obj, key, default) ==
    IF \E kv \in obj : kv[1] = key
    THEN (CHOOSE kv \in obj : kv[1] = key)[2]
    ELSE default

Url(o, a) == IF o = "get_doorphones" THEN GET_DOORPHONES_ENDPOINT
                                     ELSE OPEN_DOORPHONE_ENDPOINT(a[1])

FailMessage(o) == IF o = "get_doorphones" THEN "Failed to fetch doorphones"
                                          ELSE "Failed to open doorphone"

\* What a 200 response makes the call return.
ReturnValue(o, body) == IF o = "get_doorphones" THEN body
                                                ELSE DictGet(body, "result", FALSE)

\* if not self.cookie
NeedsAuthInverted(c) == c # None
NeedsAuthNever(c) == FALSE
NeedsAuth(c) == c = None

\* self.cookie after a login answered with status s.
CookieNeverStored(c, s) == c
CookieAlwaysStored(c, s) == Jar
CookieClearedOnFailure(c, s) == IF s = OK THEN Jar ELSE None
CookieAfterLogin(c, s) == IF s = OK THEN Jar ELSE c

\* The branch a GET's status selects.
BranchRetryAll(s) == IF s = OK THEN "ok" ELSE "reauth"
Branch(s) == IF s = OK THEN "ok" ELSE IF s = Unauthorized THEN "reauth" ELSE "fail"

\* str() of a non-negative integer, as a sequence of characters.
Digit(d) == <<"0", "1", "2", "3", "4", "5", "6", "7", "8", "9">>[d + 1]
RECURSIVE Str(_)
Str(n) == IF n < 10 THEN <<Digit(n)>> ELSE Append(Str(n \div 10), Digit(n % 10))

\* UfanetLock(api, doorphone)
UfanetLock(doorphone) ==
    [_id |-> doorphone.id,
     _name |-> IF "string_view" \in DOMAIN doorphone THEN doorphone.string_view
                                                     ELSE "Unknown Doorphone"]

\* UfanetLock.name
name(lock) == lock._name

\* UfanetLock.unique_id: f"ufanet_doorphone_{self._id}"
unique_id_of_name(lock) == <<"ufanet_doorphone_", lock._name>>
unique_id(lock) == <<"ufanet_doorphone_">> \o Str(lock._id)

\* UfanetLock.is_locked
is_locked_until_opened(lock) ==
    ~ \E t \in Tasks : outcome[t] = "info_opened" /\ arg[t] = <<lock._id>>
is_locked(lock) == FALSE

\* What async_unlock logs for the value open_doorphone returned.
UnlockLog(success) == IF success THEN "info_opened" ELSE "error_failed"

----
Init ==
    /\ cookie = None
    /\ session = NoSession
    /\ pc = [t \in Tasks |-> "idle"]
    /\ op = [t \in Tasks |-> None]
    /\ arg = [t \in Tasks |-> <<>>]
    /\ frame = [t \in Tasks |-> None]
    /\ hist = [t \in Tasks |-> <<>>]
    /\ result = [t \in Tasks |-> NoResult]
    /\ outcome = [t \in Tasks |-> None]
    /\ errors = None
    /\ entries = {}
    /\ flowPosts = 0
    /\ credentials = [username |-> "u1", password |-> "p1"]
    /\ locks = <<>>

\* authenticate() up to its POST: a new ClientSession becomes self.session.
IssueLogin(t, h, fr) ==
    /\ session' = <<t, "POST">>
    /\ hist' = [hist EXCEPT ![t] = Append(h, Request("POST", LOGIN_ENDPOINT))]
    /\ pc' = [pc EXCEPT ![t] = "login"]
    /\ frame' = [frame EXCEPT ![t] = fr]

\* A ClientSession on self.cookie becomes self.session and sends the GET.
IssueGet(t, h, o, a) ==
    /\ session' = <<t, "GET">>
    /\ hist' = [hist EXCEPT ![t] = Append(h, Request("GET", Url(o, a)))]
    /\ pc' = [pc EXCEPT ![t] = "get"]
    /\ frame' = [frame EXCEPT ![t] = None]

\* Entry of get_doorphones / open_doorphone, also on the recursive call.
EnterDebounced(t, h, c, o, a) ==
    IF o = "async_unlock" /\ outcome[t] = "info_opened" /\ arg[t] = a
    THEN /\ hist' = [hist EXCEPT ![t] = <<>>]
         /\ UNCHANGED <<session, pc, frame>>
    ELSE IF c = None THEN IssueLogin(t, h, "enter") ELSE IssueGet(t, h, o, a)
Enter(t, h, c, o, a) ==
    IF NeedsAuth(c) THEN IssueLogin(t, h, "enter") ELSE IssueGet(t, h, o, a)

\* The client call ends; async_unlock logs a returned value and lets an
\* exception pass to its caller.
Finish(t, h, res) ==
    /\ hist' = [hist EXCEPT ![t] = h]
    /\ pc' = [pc EXCEPT ![t] = "idle"]
    /\ frame' = [frame EXCEPT ![t] = None]
    /\ result' = [result EXCEPT ![t] = res]
    /\ outcome' = [outcome EXCEPT ![t] =
                     IF op[t] # "async_unlock" THEN None
                     ELSE IF res.kind = "return" THEN UnlockLog(res.value)
                     ELSE "raised"]
    /\ session' = session

\* A task starts a call on the shared client.
Call(t, o, id) ==
    /\ pc[t] = "idle"
    /\ o \in Ops(t)
    /\ op' = [op EXCEPT ![t] = o]
    /\ arg' = [arg EXCEPT ![t] = IF o = "async_unlock" THEN <<id>> ELSE <<>>]
    /\ result' = [result EXCEPT ![t] = NoResult]
    /\ outcome' = [outcome EXCEPT ![t] = None]
    /\ IF o = "authenticate"
       THEN IssueLogin(t, <<>>, "authenticate")
       ELSE Enter(t, <<>>, cookie, o, arg'[t])
    /\ UNCHANGED <<cookie, flowVars, credentials, locks>>

\* The portal answers a login POST with status s.
LoginResponseLenient(t, s) ==
    /\ pc[t] = "login"
    /\ LET h == Answered(hist[t], s, NoBody)
           c == CookieAfterLogin(cookie, s)
       IN /\ cookie' = c
          /\ IF frame[t] = "authenticate"
             THEN Finish(t, h, Returned(None))
             ELSE IF frame[t] = "enter"
             THEN /\ IssueGet(t, h, op[t], arg[t])
                  /\ UNCHANGED <<result, outcome>>
             ELSE /\ Enter(t, h, c, op[t], arg[t])
                  /\ UNCHANGED <<result, outcome>>
    /\ UNCHANGED <<op, arg, flowVars, credentials, locks>>
LoginResponse(t, s) ==
    /\ pc[t] = "login"
    /\ LET h == Answered(hist[t], s, NoBody)
           c == CookieAfterLogin(cookie, s)
       IN /\ cookie' = c
          /\ IF s # OK
             THEN Finish(t, h, Raised("Authentication failed"))
             ELSE IF frame[t] = "authenticate"
             THEN Finish(t, h, Returned(None))
             ELSE IF frame[t] = "enter"
             THEN /\ IssueGet(t, h, op[t], arg[t])
                  /\ UNCHANGED <<result, outcome>>
             ELSE /\ Enter(t, h, c, op[t], arg[t])
                  /\ UNCHANGED <<result, outcome>>
    /\ UNCHANGED <<op, arg, flowVars, credentials, locks>>

\* The portal answers a GET with status s and body b.
GetResponse(t, s, b) ==
    /\ pc[t] = "get"
    /\ b \in Bodies(op[t], s)
    /\ s = Unauthorized => NumReq(hist[t], "GET") < MaxGets
    /\ LET h == Answered(hist[t], s, b)
       IN CASE Branch(s) = "ok" -> Finish(t, h, Returned(ReturnValue(op[t], b)))
            [] Branch(s) = "reauth" ->
                  /\ IssueLogin(t, h, "reauth")
                  /\ UNCHANGED <<result, outcome>>
            [] OTHER -> Finish(t, h, Raised(FailMessage(op[t])))
    /\ UNCHANGED <<cookie, op, arg, flowVars, credentials, locks>>

\* coordinator.data: what the last refresh returned, None before that.
CoordinatorData ==
    IF op["refresh"] = "get_doorphones" /\ result["refresh"].kind = "return"
    THEN result["refresh"].value ELSE <<>>

\* async_setup_entry: one UfanetLock per doorphone of coordinator.data, none
\* added when that is empty or None.
SetupEntry ==
    /\ LET doorphones == CoordinatorData
       IN locks' = IF Len(doorphones) = 0 THEN locks
                   ELSE [i \in DOMAIN doorphones |-> UfanetLock(doorphones[i])]
    /\ UNCHANGED <<clientVars, flowVars>>

\* A pending request fails in transport: session.post / session.get raises,
\* no handler of the client catches it and the call ends with that exception.
TransportFailure(t) ==
    /\ pc[t] \in {"login", "get"}
    /\ Finish(t, Answered(hist[t], Failed, NoBody), Raised(TransportError))
    /\ UNCHANGED <<cookie, op, arg, flowVars, credentials, locks>>

\* UfanetConfigFlow.async_step_user(user_input): api.authenticate() is
\* called without await, so it makes a coroutine object whose body never
\* runs: no POST is sent and nothing is raised.
StepUser(username, password) ==
    /\ IF username = None
       THEN /\ errors' = None
            /\ UNCHANGED <<entries, flowPosts>>
       ELSE IF username = "" \/ password = ""
       THEN /\ errors' = "missing_fields"
            /\ UNCHANGED <<entries, flowPosts>>
       ELSE /\ flowPosts' = flowPosts
            /\ entries' = entries \cup {[username |-> username, password |-> password]}
            /\ UNCHANGED errors
    /\ UNCHANGED <<clientVars, locks>>

Next ==
    \/ \E t \in Tasks, o \in {"authenticate", "get_doorphones", "async_unlock"},
          id \in DoorphoneIds : Call(t, o, id)
    \/ \E t \in Tasks, s \in Statuses : LoginResponse(t, s)
    \/ \E t \in Tasks, s \in Statuses : \E b \in Bodies(op[t], s) :
          GetResponse(t, s, b)
    \/ \E t \in Tasks : TransportFailure(t)
    \/ SetupEntry
    \/ \E ui \in UserInputs : StepUser(ui[1], ui[2])

Spec == Init /\ [][Next]_vars

----
\* Reading a call's requests

Req(t, i) == hist[t][i]
Done(t) == pc[t] = "idle" /\ result[t].kind # "none"
Answer(t, i) == i \in DOMAIN hist[t] /\ hist[t][i].status # Pending
\* Position in h of its n-th GET (0 when it has fewer).
GetAt(h, n) ==
    LET S == {i \in DOMAIN h : h[i].req = "GET"
                               /\ NumReq(SubSeq(h, 1, i), "GET") = n}
    IN IF S = {} THEN 0 ELSE CHOOSE i \in S : TRUE
\* Logins of a call that follow one of its GETs.
Reauths(h) == Cardinality({i \in DOMAIN h : i > 1 /\ h[i].req = "POST"})
Reqs(h) == [i \in DOMAIN h |-> h[i].req]
Failure(s) == s \notin {Pending, Failed, OK}

----
\* C1: a get_doorphones call whose second GET is also answered 401 has
\* failed with the fetch error at that point: that GET is its last request
\* (no third GET, no second re-authentication) and the call is over.
C1_ListFailsOnSecond401 ==
    \A t \in Tasks :
        op[t] = "get_doorphones" =>
            LET i == GetAt(hist[t], 2)
            IN (i > 0 /\ Req(t, i).status = Unauthorized) =>
                  /\ i = Len(hist[t])
                  /\ Done(t)
                  /\ result[t].kind = "raise"
                  /\ result[t].msg = "Failed to fetch doorphones"

\* C2: an async_unlock's open_doorphone call sends at most two GETs and
\* re-authenticates at most once, and a second 401 ends it with the open error.
C2_OpenOneShot ==
    \A t \in Tasks :
        op[t] = "async_unlock" =>
            /\ NumReq(hist[t], "GET") <= 2
            /\ Reauths(hist[t]) <= 1
            /\ LET i == GetAt(hist[t], 2)
               IN (i > 0 /\ Req(t, i).status = Unauthorized) =>
                     result[t].kind = "raise" /\ result[t].msg = "Failed to open doorphone"

\* C3: a get_doorphones call started with a session whose first GET is
\* answered 401 and whose next two requests are answered 200 consists of
\* exactly GET, login, GET and has returned the body of the second GET.
C3_RetryAfter401 ==
    \A t \in Tasks :
        ( /\ op[t] = "get_doorphones"
          /\ Len(hist[t]) >= 3
          /\ Req(t, 1).req = "GET" /\ Req(t, 1).status = Unauthorized
          /\ Req(t, 2).status = OK
          /\ Req(t, 3).status = OK )
        => /\ Reqs(hist[t]) = <<"GET", "POST", "GET">>
           /\ Done(t)
           /\ result[t].kind = "return"
           /\ result[t].value = Req(t, 3).body

C3_Witness ==
    \E t \in Tasks :
        /\ op[t] = "get_doorphones" /\ Done(t)
        /\ Len(hist[t]) = 3
        /\ Req(t, 1).req = "GET" /\ Req(t, 1).status = Unauthorized
        /\ Req(t, 2).req = "POST" /\ Req(t, 2).status = OK
        /\ Req(t, 3).req = "GET" /\ Req(t, 3).status = OK
        /\ Req(t, 3).body # <<>>
        /\ result[t].kind = "return"

\* C4: at most one task of the client is awaiting a login POST at any time.
C4_OneLoginInFlight == Cardinality({t \in Tasks : pc[t] = "login"}) <= 1

\* C5: a get_doorphones or async_unlock call begins with a login exactly
\* when the client has no cookie at that moment, and a get_doorphones call
\* whose first request is a GET answered 200 consists of that GET alone.
C5_SessionReuse ==
    /\ [](\A t \in Tasks :
            ( /\ op[t] = "get_doorphones"
              /\ Len(hist[t]) >= 1
              /\ Req(t, 1).req = "GET" /\ Req(t, 1).status = OK )
            => Len(hist[t]) = 1 /\ Done(t))
    /\ [][\A t \in Tasks :
            (pc[t] = "idle" /\ pc'[t] # "idle" /\ op'[t] # "authenticate")
            => ((hist'[t][1].req = "POST") <=> (cookie = None))]_vars

C5_Witness ==
    \E t \in Tasks :
        /\ op[t] = "get_doorphones" /\ Done(t)
        /\ cookie = Jar
        /\ Reqs(hist[t]) = <<"GET">> /\ Req(t, 1).status = OK
        /\ result[t].kind = "return"

\* C6: an async_unlock never ends by raising: when open_doorphone raised,
\* the failure was logged instead.
C6_UnlockNeverRaises ==
    \A t \in Tasks :
        (op[t] = "async_unlock" /\ Done(t)) =>
            /\ outcome[t] \in {"info_opened", "error_failed"}
            /\ result[t].kind = "raise" => outcome[t] = "error_failed"

\* C7 (as amended): an authenticate() call sends exactly one login POST; a
\* non-200 answer ends it with Exception("Authentication failed"), which
\* carries no status code, and a 200 answer stores the cookie jar and returns.
C7_Authenticate ==
    \A t \in Tasks :
        op[t] = "authenticate" =>
            /\ Reqs(hist[t]) = <<"POST">>
            /\ Req(t, 1).status = Pending => pc[t] = "login"
            /\ Req(t, 1).status = OK =>
                  Done(t) /\ result[t].kind = "return" /\ cookie = Jar
            /\ Failure(Req(t, 1).status) =>
                  /\ Done(t) /\ result[t].kind = "raise"
                  /\ result[t].msg = "Authentication failed"
                  /\ result[t].codes = {}

C7_Witness ==
    \E t \in Tasks :
        /\ op[t] = "authenticate" /\ Done(t)
        /\ Failure(Req(t, 1).status)
        /\ result[t].kind = "raise"

\* C7 as first stated: the error of a rejected login carries the status code.
C7_ErrorCarriesStatus ==
    \A t \in Tasks :
        (op[t] = "authenticate" /\ Answer(t, 1) /\ Failure(Req(t, 1).status)) =>
            result[t].kind = "raise" /\ Req(t, 1).status \in result[t].codes

\* C8: an async_unlock has sent a GET to the open endpoint only if the
\* client holds a cookie, and when its first request is a rejected login the
\* call has ended there without any GET.
C8_NoOpenWithoutSession ==
    \A t \in Tasks :
        op[t] = "async_unlock" =>
            /\ NumReq(hist[t], "GET") > 0 => cookie # None
            /\ ( /\ Len(hist[t]) >= 1
                 /\ Req(t, 1).req = "POST" /\ Failure(Req(t, 1).status) )
               => /\ Len(hist[t]) = 1
                  /\ Done(t) /\ result[t].kind = "raise"

C8_Witness ==
    \E t \in Tasks :
        /\ op[t] = "async_unlock" /\ Done(t)
        /\ cookie = None
        /\ Reqs(hist[t]) = <<"POST">> /\ Failure(Req(t, 1).status)

\* C9 (as amended): a GET of get_doorphones or open_doorphone answered
\* with a status other than 200 and 401 is the call's last request and ends
\* it with Exception("Failed to fetch doorphones") or Exception("Failed to
\* open doorphone"), which carries no status code.
C9_OtherStatusFails ==
    \A t \in Tasks :
        \A i \in DOMAIN hist[t] :
            ( /\ Req(t, i).req = "GET"
              /\ Req(t, i).status \notin {Pending, Failed, OK, Unauthorized} )
            => /\ i = Len(hist[t])
               /\ Done(t) /\ result[t].kind = "raise"
               /\ result[t].msg = FailMessage(op[t])
               /\ result[t].codes = {}

C9_Witness ==
    \E t \in Tasks :
        /\ op[t] = "async_unlock" /\ Done(t)
        /\ Reqs(hist[t]) = <<"GET">> /\ Req(t, 1).status = 500
        /\ result[t].msg = "Failed to open doorphone"

\* C9 as first stated: the error carries the status code of the GET.
C9_ErrorCarriesStatus ==
    \A t \in Tasks :
        \A i \in DOMAIN hist[t] :
            ( /\ Req(t, i).req = "GET"
              /\ Req(t, i).status \notin {Pending, Failed, OK, Unauthorized} )
            => /\ i = Len(hist[t])
               /\ result[t].kind = "raise"
               /\ Req(t, i).status \in result[t].codes

\* C10: a config entry exists only if the form's client has sent a
\* validation login.
C10_EntryOnlyAfterValidation == entries # {} => flowPosts >= 1

\* C11: a request that failed in transport ends the call with the error of
\* the operation that sent it: the authentication error for the login POST,
\* the fetch error for the list GET, the open error for the open GET.
C11_TransportErrorWrapped ==
    \A t \in Tasks :
        (Len(hist[t]) > 0 /\ Req(t, Len(hist[t])).status = Failed) =>
            /\ Done(t) /\ result[t].kind = "raise"
            /\ result[t].msg = IF Req(t, Len(hist[t])).req = "POST"
                               THEN "Authentication failed"
                               ELSE FailMessage(op[t])

\* C12: an open_doorphone call whose GET is answered 200 returns TRUE
\* exactly when the body holds result = true; {"result": false} and {} give
\* FALSE.
C12_OpenResult ==
    \A t \in Tasks :
        ( /\ op[t] = "async_unlock"
          /\ Len(hist[t]) > 0
          /\ Req(t, Len(hist[t])).req = "GET"
          /\ Req(t, Len(hist[t])).status = OK )
        => /\ Done(t) /\ result[t].kind = "return"
           /\ result[t].value \in BOOLEAN
           /\ result[t].value <=> (<<"result", TRUE>> \in Req(t, Len(hist[t])).body)

C12_Witness ==
    \E t \in Tasks :
        /\ op[t] = "async_unlock" /\ Done(t)
        /\ Req(t, Len(hist[t])).status = OK
        /\ Req(t, Len(hist[t])).body = {<<"result", FALSE>>}
        /\ result[t].value = FALSE

\* C13: is_locked is FALSE for every lock entity in every reachable state,
\* whatever the unlock calls made so far ended with.
C13_NeverLocked == \A i \in DOMAIN locks : is_locked(locks[i]) = FALSE

C13_Witness ==
    /\ Len(locks) > 0
    /\ \E t \in Tasks :
          /\ op[t] = "async_unlock" /\ Done(t)
          /\ arg[t] = <<locks[1]._id>>
          /\ outcome[t] = "raised"

\* C14: the unique_id of a lock is decided by its doorphone id alone and
\* differs for different ids: a lock built from any id has the unique_id of an
\* existing lock exactly when the two ids are equal, and so have any two
\* existing locks.
C14_IdentityInjective ==
    /\ \A i \in DOMAIN locks : \A id \in SampleIds :
          (unique_id(UfanetLock([id |-> id])) = unique_id(locks[i]))
              <=> (id = locks[i]._id)
    /\ \A i, j \in DOMAIN locks :
          (unique_id(locks[i]) = unique_id(locks[j])) <=> (locks[i]._id = locks[j]._id)

C14_Witness ==
    /\ Len(locks) = 2
    /\ name(locks[1]) = "Front Gate"
    /\ unique_id(locks[1]) = <<"ufanet_doorphone_", "4", "2">>
    /\ unique_id(locks[2]) = <<"ufanet_doorphone_", "7">>
    /\ \E t \in Tasks : outcome[t] = "info_opened"

\* C15: before any call the client has no cookie, no session and has sent
\* no request; a get_doorphones or async_unlock call started without a cookie
\* sends one login POST first and its GET only after that login was answered
\* 200; and the cookie becomes present only in a step that answers a pending
\* login POST with 200.
C15_FreshClient ==
    /\ []((\A t \in Tasks : op[t] = None) =>
             /\ cookie = None /\ session = NoSession
             /\ \A t \in Tasks : hist[t] = <<>>)
    /\ [](\A t \in Tasks :
             (op[t] # "authenticate" /\ Len(hist[t]) >= 2 /\ Req(t, 1).req = "POST")
             => Req(t, 1).status = OK /\ Req(t, 2).req = "GET")
    /\ [][\A t \in Tasks :
             ( /\ cookie = None
               /\ pc[t] = "idle" /\ pc'[t] # "idle" /\ op'[t] # "authenticate" )
             => Reqs(hist'[t]) = <<"POST">>]_vars
    /\ [][(cookie = None /\ cookie' # None) =>
             \E t \in Tasks :
                /\ pc[t] = "login"
                /\ hist'[t][Len(hist[t])].req = "POST"
                /\ hist'[t][Len(hist[t])].status = OK]_vars

C15_Witness ==
    /\ op["user"] = None
    /\ op["refresh"] = "get_doorphones" /\ Done("refresh")
    /\ cookie = Jar
    /\ Reqs(hist["refresh"]) = <<"POST", "GET">>
    /\ Req("refresh", 1).status = OK /\ Req("refresh", 2).status = OK

\* C16: a call of open_doorphone gets at most one 200 from the open
\* endpoint, and an async_unlock started after one whose only GET was answered
\* 200 sends its own GET to the open endpoint of its doorphone.
C16_OpenPerCall ==
    /\ [](\A t \in Tasks :
             op[t] = "async_unlock" =>
                Cardinality({i \in DOMAIN hist[t] :
                               Req(t, i).req = "GET" /\ Req(t, i).status = OK}) <= 1)
    /\ [][\A t \in Tasks :
             ( /\ pc[t] = "idle" /\ op[t] = "async_unlock"
               /\ Reqs(hist[t]) = <<"GET">> /\ Req(t, 1).status = OK
               /\ op'[t] = "async_unlock"
               /\ (hist'[t] # hist[t] \/ pc'[t] # "idle") )
             => /\ Reqs(hist'[t]) = <<"GET">>
                /\ hist'[t][1].status = Pending
                /\ hist'[t][1].url = OPEN_DOORPHONE_ENDPOINT(arg'[t][1])]_vars

C16_Witness ==
    \E t \in Tasks :
        /\ op[t] = "async_unlock" /\ Done(t)
        /\ Reqs(hist[t]) = <<"GET">> /\ Req(t, 1).status = OK
        /\ outcome[t] = "info_opened"

\* C17: inside get_doorphones and open_doorphone a GET that is not the
\* call's first request follows a login answered 200, and a rejected
\* re-authentication is the call's last request and ends it with the
\* authentication failure.
C17_RetryOnlyAfterReauth ==
    \A t \in Tasks :
        op[t] \in {"get_doorphones", "async_unlock"} =>
            \A i \in DOMAIN hist[t] :
                /\ (i > 1 /\ Req(t, i).req = "POST" /\ Failure(Req(t, i).status))
                   => /\ i = Len(hist[t])
                      /\ Done(t) /\ result[t].kind = "raise"
                      /\ result[t].msg = "Authentication failed"
                /\ (i > 1 /\ Req(t, i).req = "GET")
                   => Req(t, i - 1).req = "POST" /\ Req(t, i - 1).status = OK

C17_Witness ==
    \E t \in Tasks :
        /\ op[t] = "get_doorphones" /\ Done(t)
        /\ Reqs(hist[t]) = <<"GET", "POST">>
        /\ Req(t, 1).status = Unauthorized /\ Req(t, 2).status = 500
        /\ result[t].msg = "Authentication failed"

\* C18: a step that answers a pending login POST with a non-200 status
\* leaves the cookie as it was, and no step changes the credentials.
C18_FailedLoginFrame ==
    /\ [][\A t \in Tasks :
             (pc[t] = "login" /\ Failure(hist'[t][Len(hist[t])].status))
             => cookie' = cookie]_vars
    /\ [][credentials' = credentials]_vars

C18_Witness ==
    \E t \in Tasks :
        /\ op[t] = "authenticate" /\ Done(t)
        /\ Failure(Req(t, 1).status)
        /\ cookie = Jar
        /\ credentials = [username |-> "u1", password |-> "p1"]
====
